---------------------------- MODULE Spec2Model ----------------------------
(***************************************************************************)
(* Model of i3bar/src/draw_util.c: the colour parser                       *)
(* draw_util_hex_to_color and the surface drawing helpers, in both of the  *)
(* builds the file compiles to (with and without I3BAR_CAIRO).             *)
(***************************************************************************)
EXTENDS Integers, Sequences, FiniteSets, TLC

VARIABLES
    color,      \* the argument of draw_util_hex_to_color: its characters before the NUL
    hexpc,      \* "call" before the call, "returned" or "crashed" after it
    result,     \* the color_t returned (channel numerators over 255)
    reads,      \* the indices of color[] the call has read
    alive,      \* FALSE once the process has called exit()
    exit_status,\* the status passed to exit()
    lifecycle,  \* per surface_t: "uninit", "live", "freed" or "failed"
    surface,    \* per surface_t: the fields id, width, height, gc
    res,        \* per surface_t: the X GC and the cairo reference counts
    pixels,     \* per build and surface: the contents of its drawable
    gcv,        \* per build and surface: foreground and background of its GC
    cr,         \* per surface_t: the state of its cairo_t (cairo build)
    pending,    \* per surface_t: cairo drawing not yet flushed to X
    stale,      \* per surface_t: X drawing cairo has not been told about
    nextId,     \* the number of ids xcb_generate_id has handed out
    nops,       \* the number of calls made since the initialisation
    last        \* the last drawing call made and its arguments

hexvars == <<color, hexpc, result, reads>>

surfvars == <<alive, exit_status, lifecycle, surface, res, pixels, gcv, cr,
              pending, stale, nextId, nops, last>>

vars == <<hexvars, surfvars>>

(***************************************************************************)
(* Bounds of the parser model.                                             *)
(***************************************************************************)
MaxLen == 10        \* input strings have 0..MaxLen characters

NUL == "NUL"        \* the terminating '\0'

\* strlen("#rrggbbaa"), draw_util.c:66
RGBA_LEN == 9

(***************************************************************************)
(* Characters and strtol(3) with base 16, as called at draw_util.c:80-83.  *)
(***************************************************************************)
HexValue ==
    ("0" :> 0) @@ ("1" :> 1) @@ ("2" :> 2) @@ ("3" :> 3) @@ ("4" :> 4) @@
    ("5" :> 5) @@ ("6" :> 6) @@ ("7" :> 7) @@ ("8" :> 8) @@ ("9" :> 9) @@
    ("a" :> 10) @@ ("b" :> 11) @@ ("c" :> 12) @@ ("d" :> 13) @@ ("e" :> 14) @@
    ("f" :> 15) @@ ("A" :> 10) @@ ("B" :> 11) @@ ("C" :> 12) @@ ("D" :> 13) @@
    ("E" :> 14) @@ ("F" :> 15)

IsHexDigit(c) == c \in DOMAIN HexValue

IsSpace(c) == c \in {" ", "\t"}

\* The C string held in a char array: the characters before the first NUL.
RECURSIVE CStr(_)
CStr(s) ==
    IF s = <<>> \/ Head(s) = NUL THEN <<>> ELSE <<Head(s)>> \o CStr(Tail(s))

RECURSIVE SkipSpace(_)
SkipSpace(s) ==
    IF s # <<>> /\ IsSpace(Head(s)) THEN SkipSpace(Tail(s)) ELSE s

\* The optional "0x"/"0X" prefix base 16 accepts, taken only before a digit.
SkipPrefix(s) ==
    IF Len(s) >= 3 /\ s[1] = "0" /\ s[2] \in {"x", "X"} /\ IsHexDigit(s[3])
    THEN SubSeq(s, 3, Len(s))
    ELSE s

RECURSIVE Digits(_, _)
Digits(s, acc) ==
    IF s # <<>> /\ IsHexDigit(Head(s))
    THEN Digits(Tail(s), acc * 16 + HexValue[Head(s)])
    ELSE acc

\* strtol16 with a fault: it parses only the first digit of the group.
strtol16_onedigit(buf) ==
    LET s == SkipSpace(CStr(buf))
    IN  IF s # <<>> /\ IsHexDigit(Head(s)) THEN HexValue[Head(s)] ELSE 0

\* strtol(buf, NULL, 16): white space, an optional sign, an optional 0x, then
\* the longest run of hexadecimal digits; 0 when there is none.
strtol16(buf) ==
    LET s == SkipSpace(CStr(buf))
        neg == s # <<>> /\ s[1] = "-"
        t == IF s # <<>> /\ s[1] \in {"+", "-"} THEN Tail(s) ELSE s
        v == Digits(SkipPrefix(t), 0)
    IN  IF neg THEN 0 - v ELSE v

(***************************************************************************)
(* draw_util_hex_to_color, draw_util.c:64-85.                              *)
(***************************************************************************)
strlen(s) == Len(s)

\* color[i] for a 0-based i: a character of the string, its NUL, or, past the
\* NUL, whatever byte the memory behind the string holds (junk).
CharAt(s, i, junk) ==
    IF i < Len(s) THEN s[i + 1] ELSE IF i = Len(s) THEN NUL ELSE junk

\* The indices of color[] the function reads (lines 67-68 and 74-76).
ReadIndices(s) ==
    (1 .. 6) \cup (IF strlen(s) = RGBA_LEN THEN {7, 8} ELSE {})

\* char alpha[2], lines 65-71.
alpha_chars(s, junk) ==
    IF strlen(s) = RGBA_LEN
    THEN <<CharAt(s, 7, junk), CharAt(s, 8, junk)>>
    ELSE <<"F", "F">>

\* char groups[4][3], lines 73-77.
groups(s, junk) ==
    LET alpha == alpha_chars(s, junk)
    IN  << <<CharAt(s, 1, junk), CharAt(s, 2, junk), NUL>>,
           <<CharAt(s, 3, junk), CharAt(s, 4, junk), NUL>>,
           <<CharAt(s, 5, junk), CharAt(s, 6, junk), NUL>>,
           <<alpha[1], alpha[2], NUL>> >>

\* libi3's get_colorpixel(color), called at line 84: the three groups as
\* 8-bit values, the 0xRRGGBB pixel of a true-colour visual.
get_colorpixel(s, junk) ==
    LET g == groups(s, junk)
    IN  (strtol16(g[1]) % 256) * 65536
          + (strtol16(g[2]) % 256) * 256 + (strtol16(g[3]) % 256)

\* The returned color_t, lines 79-85; a channel n stands for n / 255.0.
draw_util_hex_to_color(s, junk) ==
    LET g == groups(s, junk)
    IN  [red   |-> strtol16(g[1]),
         green |-> strtol16(g[2]),
         blue  |-> strtol16(g[3]),
         alpha |-> strtol16(g[4]),
         colorpixel |-> get_colorpixel(s, junk)]

\* The value of result before the call has returned.
NoColor ==
    [red |-> 0 - 1000, green |-> 0 - 1000, blue |-> 0 - 1000,
     alpha |-> 0 - 1000, colorpixel |-> 0]

(***************************************************************************)
(* Inputs of the parser: "#", four two-character groups and filler, cut to  *)
(* every length 0..MaxLen.                                                 *)
(***************************************************************************)
Pairs ==
    { <<"0", "0">>, <<"f", "f">>, <<"F", "F">>, <<"3", "c">>, <<"A", "9">>,
      <<"-", "f">>, <<" ", "7">>, <<"0", "x">>, <<"g", "1">> }

AlphaPairs ==
    { <<"0", "0">>, <<"f", "f">>, <<"8", "0">>, <<"-", "1">>, <<"z", "z">> }

Junk == {"0", "f", "-", NUL}

Filler(n) == [i \in 1 .. n |-> "0"]

Take(s, n) == SubSeq(s, 1, IF n < Len(s) THEN n ELSE Len(s))

Inputs ==
    { Take(<<"#">> \o p1 \o p2 \o p3 \o p4 \o Filler(MaxLen - RGBA_LEN), n) :
        p1 \in Pairs, p2 \in Pairs, p3 \in Pairs, p4 \in AlphaPairs,
        n \in 0 .. MaxLen }


(***************************************************************************)
(* Surfaces.  Both builds of the file are run side by side on the same     *)
(* calls: build "cairo" is compiled with I3BAR_CAIRO, build "xcb" without. *)
(***************************************************************************)
MaxW == 1           \* drawables are MaxW pixels wide
MaxH == 2           \* and MaxH pixels high
MaxOps == 2         \* at most MaxOps calls follow the initialisation

EXIT_FAILURE == 1

\* i3bar draws into a buffer and copies it onto the bar window.
Surfaces == {"buffer", "bar"}

Builds == {"cairo", "xcb"}

\* The drawable the caller wraps in each surface_t.
DrawableOf(s) == IF s = "buffer" THEN 1 ELSE 2

\* The colours the caller draws with, parsed by draw_util_hex_to_color.
DrawColors ==
    { draw_util_hex_to_color(<<"#", "f", "f", "0", "0", "0", "0">>, NUL),
      draw_util_hex_to_color(<<"#", "0", "0", "8", "0", "f", "f", "f", "f">>, NUL) }

\* The background colour of the bar, the bg_color of every text.
BarBackground == draw_util_hex_to_color(<<"#", "0", "0", "0", "0", "0", "0">>, NUL)

Coords(w, h) == (0 .. w - 1) \X (0 .. h - 1)

\* The pixels of the rectangle x, y, w, h.
Rect(x, y, w, h) ==
    { p \in (x .. x + w - 1) \X (y .. y + h - 1) : TRUE }

\* The contents of the drawable the caller has just created: X leaves them
\* undefined, here every pixel holds a value of its own.
NewPixmap(d, w, h) ==
    [p \in Coords(w, h) |-> 1 + p[1] + 8 * p[2] + 64 * d]

\* Conversions of the arguments to the fields of an X request.
int16(v) == ((v + 32768) % 65536) - 32768

uint16(v) == v % 65536

\* A pixel of a depth-24 drawable keeps the low 24 bits of the value written.
depth24(v) == v % 16777216

(***************************************************************************)
(* The X requests the file issues.                                         *)
(***************************************************************************)
\* The GC values a new GC has (value mask 0 at line 37).
DefaultGc == [fg |-> 0, bg |-> 1]

\* xcb_change_gc with XCB_GC_FOREGROUND | XCB_GC_BACKGROUND.
xcb_change_gc(gc, fg, bg) == [gc EXCEPT !.fg = fg, !.bg = bg]

\* xcb_poly_fill_rectangle of one rectangle with the GC's foreground.
xcb_poly_fill_rectangle(grid, gc, rect) ==
    [p \in DOMAIN grid |->
        IF p \in Rect(rect.x, rect.y, rect.width, rect.height)
        THEN depth24(gc.fg)
        ELSE grid[p]]

\* xcb_copy_area: destination (dx + i, dy + j) becomes source (sx + i, sy + j);
\* where the source has no such pixel the destination is left as it is.
xcb_copy_area(srcgrid, dstgrid, sx, sy, dx, dy, w, h) ==
    [p \in DOMAIN dstgrid |->
        LET q == <<p[1] - dx + sx, p[2] - dy + sy>>
        IN  IF p \in Rect(dx, dy, w, h) /\ q \in DOMAIN srcgrid
            THEN srcgrid[q]
            ELSE dstgrid[p]]

(***************************************************************************)
(* The cairo calls the file makes.  A cairo_t is its current operator and  *)
(* source and the stack of saved ones.                                     *)
(***************************************************************************)
NoCr == [op |-> "none", source |-> <<"none">>, saved |-> <<>>]

\* cairo_create: operator OVER, source opaque black, nothing saved.
cairo_create == [op |-> "OVER", source |-> <<"rgba", 0, 0, 0, 255>>, saved |-> <<>>]

cairo_save(c) ==
    [c EXCEPT !.saved = Append(@, [op |-> c.op, source |-> c.source])]

\* cairo_restore with a fault: it pops nothing.
cairo_restore_noop(c) == c

cairo_restore(c) ==
    IF c.saved = <<>>
    THEN c
    ELSE [op |-> c.saved[Len(c.saved)].op,
          source |-> c.saved[Len(c.saved)].source,
          saved |-> SubSeq(c.saved, 1, Len(c.saved) - 1)]

cairo_set_operator(c, op) == [c EXCEPT !.op = op]

cairo_set_source_rgba(c, r, g, b, a) ==
    [c EXCEPT !.source = <<"rgba", r, g, b, a>>]

\* The origin of surface src is placed at user-space (x, y).
cairo_set_source_surface(c, src, x, y) ==
    [c EXCEPT !.source = <<"surface", src, x, y>>]

\* The source of c sampled at pixel p: colour and alpha.  A surface pattern
\* has CAIRO_EXTEND_NONE: it is transparent outside the surface.
SourceAt(c, pix, p) ==
    IF c.source[1] = "rgba"
    THEN [rgb |-> c.source[2] * 65536 + c.source[3] * 256 + c.source[4],
          a |-> c.source[5]]
    ELSE LET q == <<p[1] - c.source[3], p[2] - c.source[4]>>
         IN  IF q \in DOMAIN pix[c.source[2]]
             THEN [rgb |-> pix[c.source[2]][q], a |-> 255]
             ELSE [rgb |-> 0, a |-> 0]

\* One channel (0 red, 1 green, 2 blue) of a 24-bit pixel.
Chan(v, k) == (v \div (IF k = 0 THEN 65536 ELSE IF k = 1 THEN 256 ELSE 1)) % 256

FromChans(r, g, b) == r * 65536 + g * 256 + b

\* The pixel operator op leaves where sample smp is drawn over pixel dst.
Composite(op, smp, dst) ==
    LET pre(k) == (Chan(smp.rgb, k) * smp.a) \div 255
        over(k) == pre(k) + (Chan(dst, k) * (255 - smp.a)) \div 255
    IN  IF op = "SOURCE"
        THEN FromChans(pre(0), pre(1), pre(2))
        ELSE FromChans(over(0), over(1), over(2))

\* cairo_fill of the path region (cairo_paint: of the whole surface) on the
\* target s of c.
cairo_fill(c, pix, s, region) ==
    [p \in DOMAIN pix[s] |->
        IF p \in region
        THEN Composite(c.op, SourceAt(c, pix, p), pix[s][p])
        ELSE pix[s][p]]

\* cairo_paint with a fault: it paints the first row only.
cairo_paint_row(c, pix, s) ==
    cairo_fill(c, pix, s, {p \in DOMAIN pix[s] : p[2] = 0})

cairo_paint(c, pix, s) == cairo_fill(c, pix, s, DOMAIN pix[s])

\* The references c (its current and saved sources) holds on the cairo
\* surface of t.
RECURSIVE SavedRefs(_, _)
SavedRefs(saved, t) ==
    IF saved = <<>>
    THEN 0
    ELSE (IF Head(saved).source[1] = "surface" /\ Head(saved).source[2] = t
          THEN 1 ELSE 0) + SavedRefs(Tail(saved), t)

RefsHeld(c, t) ==
    (IF c.source[1] = "surface" /\ c.source[2] = t THEN 1 ELSE 0)
      + SavedRefs(c.saved, t)

\* CAIRO_SURFACE_FLUSH(surface): nothing drawn by cairo stays unflushed.
CAIRO_SURFACE_FLUSH(p) == FALSE

\* cairo_surface_mark_dirty(surface): cairo rereads the drawable.
cairo_surface_mark_dirty(st) == FALSE

(***************************************************************************)
(* The calls of the file.                                                  *)
(***************************************************************************)
NoCall ==
    [op |-> "none", s |-> "-", src |-> "-", color |-> NoColor,
     x |-> 0, y |-> 0, w |-> 0, h |-> 0, after_copy |-> FALSE,
     pendingAtDraw |-> FALSE, staleAtDraw |-> FALSE]

Call(op, s) == [NoCall EXCEPT !.op = op, !.s = s]

\* The caller initialises its surfaces, then draws, then frees them: it draws
\* while all of them are live.
Drawing == \A s \in Surfaces : lifecycle[s] = "live"

\* xcb_generate_id, line 36: an id no drawable has.
xcb_generate_id == Cardinality(Surfaces) + nextId + 1

\* The cairo reference counts once the cairo_t of s has become c.
Rebind(s, c) ==
    [t \in Surfaces |->
        [res[t] EXCEPT !.surface = @ + RefsHeld(c, t) - RefsHeld(cr[s], t)]]

\* draw_util_surface_init with a fault: it carries on when the GC could not
\* be created.
draw_util_surface_init_noexit(s, drawable, width, height, gc_ok) ==
    /\ alive
    /\ lifecycle[s] = "uninit"
    /\ nextId' = nextId + 1
    /\ surface' = [surface EXCEPT ![s] = [id |-> drawable, width |-> width,
                                          height |-> height, gc |-> xcb_generate_id]]
    /\ res' = [res EXCEPT ![s] = [gc |-> IF gc_ok THEN 1 ELSE 0, surface |-> 2, cr |-> 1]]
    /\ cr' = [cr EXCEPT ![s] = cairo_create]
    /\ pixels' = [b \in Builds |->
                    [pixels[b] EXCEPT ![s] = NewPixmap(drawable, width, height)]]
    /\ gcv' = [b \in Builds |-> [gcv[b] EXCEPT ![s] = DefaultGc]]
    /\ lifecycle' = [lifecycle EXCEPT ![s] = "live"]
    /\ UNCHANGED <<alive, exit_status, pending, stale, nops, last>>

\* draw_util_surface_init, lines 31-45, on a drawable the caller has just
\* created with the given size; gc_ok is the outcome of xcb_create_gc_checked.
draw_util_surface_init(s, drawable, width, height, gc_ok) ==
    /\ alive
    /\ lifecycle[s] = "uninit"
    /\ nextId' = nextId + 1
    /\ surface' = [surface EXCEPT ![s] = [id |-> drawable, width |-> width,
                                          height |-> height, gc |-> xcb_generate_id]]
    /\ pixels' = [b \in Builds |->
                    [pixels[b] EXCEPT ![s] = NewPixmap(drawable, width, height)]]
    /\ IF gc_ok
       THEN /\ res' = [res EXCEPT ![s] = [gc |-> 1, surface |-> 2, cr |-> 1]]
            /\ cr' = [cr EXCEPT ![s] = cairo_create]
            /\ gcv' = [b \in Builds |-> [gcv[b] EXCEPT ![s] = DefaultGc]]
            /\ lifecycle' = [lifecycle EXCEPT ![s] = "live"]
            /\ UNCHANGED <<alive, exit_status>>
       ELSE /\ alive' = FALSE
            /\ exit_status' = EXIT_FAILURE
            /\ lifecycle' = [lifecycle EXCEPT ![s] = "failed"]
            /\ UNCHANGED <<res, cr, gcv>>
    /\ UNCHANGED <<pending, stale, nops, last>>

\* draw_util_surface_free with a fault: it forgets cairo_destroy.
draw_util_surface_free_leak(s) ==
    /\ alive
    /\ lifecycle[s] = "live"
    /\ nops < MaxOps
    /\ nops' = nops + 1
    /\ res' = [res EXCEPT ![s] = [gc |-> @.gc - 1, surface |-> @.surface - 1,
                                  cr |-> @.cr]]
    /\ lifecycle' = [lifecycle EXCEPT ![s] = "freed"]
    /\ UNCHANGED <<alive, exit_status, surface, pixels, gcv, cr, pending, stale, nextId, last>>

\* draw_util_surface_free, lines 51-57: xcb_free_gc, cairo_surface_destroy
\* (drops the surface_t's reference) and cairo_destroy (drops the cairo_t,
\* which then drops its sources' and its target's references).
draw_util_surface_free(s) ==
    /\ alive
    /\ lifecycle[s] = "live"
    /\ nops < MaxOps
    /\ nops' = nops + 1
    /\ LET r1 == [res EXCEPT ![s].gc = @ - 1]
           r2 == [r1 EXCEPT ![s].surface = @ - 1]
           r3 == [r2 EXCEPT ![s].cr = @ - 1]
           gone == r3[s].cr = 0
           r4 == IF gone
                 THEN [t \in Surfaces |->
                         [r3[t] EXCEPT !.surface =
                             @ - RefsHeld(cr[s], t) - (IF t = s THEN 1 ELSE 0)]]
                 ELSE r3
       IN  /\ res' = r4
           /\ cr' = IF gone THEN [cr EXCEPT ![s] = NoCr] ELSE cr
    /\ lifecycle' = [lifecycle EXCEPT ![s] = "freed"]
    /\ UNCHANGED <<alive, exit_status, surface, pixels, gcv, pending, stale, nextId, last>>

\* draw_util_set_source_color, lines 91-99, in the cairo build.
draw_util_set_source_color_cairo(c, col) ==
    cairo_set_source_rgba(c, col.red, col.green, col.blue, col.alpha)

\* draw_util_set_source_color_xcb with a fault: it leaves the GC as it is.
draw_util_set_source_color_xcb_keep(gc, col) == gc

\* draw_util_set_source_color, lines 91-99, in the xcb build.
draw_util_set_source_color_xcb(gc, col) ==
    xcb_change_gc(gc, col.colorpixel, col.colorpixel)

\* libi3's set_font_colors and draw_text, called at lines 113-114: the glyph
\* is drawn at (x, y) on the drawable with the GC's new foreground.
draw_text(grid, gc, fg, bg, x, y) ==
    LET g == xcb_change_gc(gc, fg.colorpixel, bg.colorpixel)
    IN  [gc |-> g,
         grid |-> [p \in DOMAIN grid |->
                     IF p = <<x, y>> THEN depth24(g.fg) ELSE grid[p]]]

\* draw_util_text with a fault: it forgets cairo_surface_mark_dirty.
draw_util_text_nodirty(s, fg, bg, x, y) ==
    /\ alive
    /\ lifecycle[s] = "live"
    /\ Drawing
    /\ nops < MaxOps
    /\ nops' = nops + 1
    /\ LET flushed == CAIRO_SURFACE_FLUSH(pending[s])
           tc == draw_text(pixels["cairo"][s], gcv["cairo"][s], fg, bg, x, y)
           tx == draw_text(pixels["xcb"][s], gcv["xcb"][s], fg, bg, x, y)
       IN  /\ pixels' = [pixels EXCEPT !["cairo"][s] = tc.grid, !["xcb"][s] = tx.grid]
           /\ gcv' = [gcv EXCEPT !["cairo"][s] = tc.gc, !["xcb"][s] = tx.gc]
           /\ pending' = [pending EXCEPT ![s] = flushed]
           /\ stale' = [stale EXCEPT ![s] = TRUE]
           /\ last' = [Call("text", s) EXCEPT !.color = fg, !.pendingAtDraw = flushed]
    /\ UNCHANGED <<alive, exit_status, lifecycle, surface, res, cr, nextId>>

\* draw_util_text, lines 107-120.
draw_util_text(s, fg, bg, x, y) ==
    /\ alive
    /\ lifecycle[s] = "live"
    /\ Drawing
    /\ nops < MaxOps
    /\ nops' = nops + 1
    /\ LET flushed == CAIRO_SURFACE_FLUSH(pending[s])
           tc == draw_text(pixels["cairo"][s], gcv["cairo"][s], fg, bg, x, y)
           tx == draw_text(pixels["xcb"][s], gcv["xcb"][s], fg, bg, x, y)
       IN  /\ pixels' = [pixels EXCEPT !["cairo"][s] = tc.grid, !["xcb"][s] = tx.grid]
           /\ gcv' = [gcv EXCEPT !["cairo"][s] = tc.gc, !["xcb"][s] = tx.gc]
           /\ pending' = [pending EXCEPT ![s] = flushed]
           /\ stale' = [stale EXCEPT ![s] = cairo_surface_mark_dirty(TRUE)]
           /\ last' = [Call("text", s) EXCEPT !.color = fg, !.pendingAtDraw = flushed]
    /\ UNCHANGED <<alive, exit_status, lifecycle, surface, res, cr, nextId>>

\* draw_util_rectangle, lines 128-152.
draw_util_rectangle(s, col, x, y, w, h) ==
    /\ alive
    /\ lifecycle[s] = "live"
    /\ Drawing
    /\ nops < MaxOps
    /\ nops' = nops + 1
    /\ LET c1 == cairo_save(cr[s])
           c2 == cairo_set_operator(c1, "SOURCE")
           c3 == draw_util_set_source_color_cairo(c2, col)
           gridc == cairo_fill(c3, pixels["cairo"], s, Rect(x, y, w, h))
           flushed == CAIRO_SURFACE_FLUSH(TRUE)
           c4 == cairo_restore(c3)
           gx == draw_util_set_source_color_xcb(gcv["xcb"][s], col)
           rect == [x |-> int16(x), y |-> int16(y),
                    width |-> uint16(w), height |-> uint16(h)]
           gridx == xcb_poly_fill_rectangle(pixels["xcb"][s], gx, rect)
       IN  /\ cr' = [cr EXCEPT ![s] = c4]
           /\ res' = Rebind(s, c4)
           /\ pixels' = [pixels EXCEPT !["cairo"][s] = gridc, !["xcb"][s] = gridx]
           /\ gcv' = [gcv EXCEPT !["xcb"][s] = gx]
           /\ pending' = [pending EXCEPT ![s] = flushed]
           /\ last' = [Call("rectangle", s) EXCEPT !.color = col, !.x = x, !.y = y,
                          !.w = w, !.h = h, !.staleAtDraw = stale[s]]
    /\ UNCHANGED <<alive, exit_status, lifecycle, surface, stale, nextId>>

\* draw_util_clear_surface, lines 158-181.
draw_util_clear_surface(s, col) ==
    /\ alive
    /\ lifecycle[s] = "live"
    /\ Drawing
    /\ nops < MaxOps
    /\ nops' = nops + 1
    /\ LET c1 == cairo_save(cr[s])
           c2 == cairo_set_operator(c1, "SOURCE")
           c3 == draw_util_set_source_color_cairo(c2, col)
           gridc == cairo_paint(c3, pixels["cairo"], s)
           flushed == CAIRO_SURFACE_FLUSH(TRUE)
           c4 == cairo_restore(c3)
           gx == draw_util_set_source_color_xcb(gcv["xcb"][s], col)
           rect == [x |-> 0, y |-> 0, width |-> uint16(surface[s].width),
                    height |-> uint16(surface[s].height)]
           gridx == xcb_poly_fill_rectangle(pixels["xcb"][s], gx, rect)
       IN  /\ cr' = [cr EXCEPT ![s] = c4]
           /\ res' = Rebind(s, c4)
           /\ pixels' = [pixels EXCEPT !["cairo"][s] = gridc, !["xcb"][s] = gridx]
           /\ gcv' = [gcv EXCEPT !["xcb"][s] = gx]
           /\ pending' = [pending EXCEPT ![s] = flushed]
           /\ last' = [Call("clear", s) EXCEPT !.color = col, !.staleAtDraw = stale[s],
                          !.after_copy = (last.op = "copy" /\ last.s = s)]
    /\ UNCHANGED <<alive, exit_status, lifecycle, surface, stale, nextId>>

\* draw_util_copy_surface, lines 187-211.
draw_util_copy_surface(src, dest, src_x, src_y, dest_x, dest_y, width, height) ==
    /\ alive
    /\ lifecycle[src] = "live"
    /\ lifecycle[dest] = "live"
    /\ Drawing
    /\ nops < MaxOps
    /\ nops' = nops + 1
    /\ LET c1 == cairo_save(cr[dest])
           c2 == cairo_set_operator(c1, "SOURCE")
           c3 == cairo_set_source_surface(c2, src, dest_x - src_x, src_y)
           gridc == cairo_fill(c3, pixels["cairo"], dest,
                               Rect(dest_x, dest_y, width, height))
           flushed_src == CAIRO_SURFACE_FLUSH(pending[src])
           flushed_dest == CAIRO_SURFACE_FLUSH(TRUE)
           c4 == cairo_restore(c3)
           gridx == xcb_copy_area(pixels["xcb"][src], pixels["xcb"][dest],
                                  int16(src_x), int16(src_y), int16(dest_x),
                                  int16(dest_y), uint16(width), uint16(height))
       IN  /\ cr' = [cr EXCEPT ![dest] = c4]
           /\ res' = Rebind(dest, c4)
           /\ pixels' = [pixels EXCEPT !["cairo"][dest] = gridc, !["xcb"][dest] = gridx]
           /\ pending' = [pending EXCEPT ![src] = flushed_src, ![dest] = flushed_dest]
           /\ last' = [Call("copy", dest) EXCEPT !.src = src,
                          !.staleAtDraw = stale[src] \/ stale[dest]]
    /\ UNCHANGED <<alive, exit_status, lifecycle, surface, gcv, stale, nextId>>

(***************************************************************************)
(* The two specifications.                                                 *)
(***************************************************************************)
HexIdle ==
    /\ color = <<>>
    /\ hexpc = "idle"
    /\ result = NoColor
    /\ reads = {}

SurfInit ==
    /\ alive = TRUE
    /\ exit_status = 0
    /\ lifecycle = [s \in Surfaces |-> "uninit"]
    /\ surface = [s \in Surfaces |-> [id |-> 0, width |-> 0, height |-> 0, gc |-> 0]]
    /\ res = [s \in Surfaces |-> [gc |-> 0, surface |-> 0, cr |-> 0]]
    /\ pixels = [b \in Builds |-> [s \in Surfaces |-> << >>]]
    /\ gcv = [b \in Builds |-> [s \in Surfaces |-> DefaultGc]]
    /\ cr = [s \in Surfaces |-> NoCr]
    /\ pending = [s \in Surfaces |-> FALSE]
    /\ stale = [s \in Surfaces |-> FALSE]
    /\ nextId = 0
    /\ nops = 0
    /\ last = NoCall

Init == HexIdle /\ SurfInit

SurfaceInit ==
    /\ \E s \in Surfaces, gc_ok \in BOOLEAN :
          draw_util_surface_init(s, DrawableOf(s), MaxW, MaxH, gc_ok)
    /\ UNCHANGED hexvars

SurfaceFree ==
    /\ \E s \in Surfaces : draw_util_surface_free(s)
    /\ UNCHANGED hexvars

Text ==
    /\ \E s \in {"buffer"}, fg \in DrawColors, bg \in {BarBackground} :
          \E p \in DOMAIN pixels["xcb"][s] :
              draw_util_text(s, fg, bg, p[1], p[2])
    /\ UNCHANGED hexvars

\* Rectangles that lie within the surface.
Rectangle ==
    /\ \E s \in {"buffer"}, col \in DrawColors :
          \E p \in DOMAIN pixels["xcb"][s] :
              \E w \in 1 .. surface[s].width - p[1], h \in 1 .. surface[s].height - p[2] :
                  draw_util_rectangle(s, col, p[1], p[2], w, h)
    /\ UNCHANGED hexvars

ClearSurface ==
    /\ \E s \in Surfaces, col \in DrawColors : draw_util_clear_surface(s, col)
    /\ UNCHANGED hexvars

Min(a, b) == IF a < b THEN a ELSE b

\* Copies from every place of the buffer to every place of the bar, of the
\* largest rectangle that lies within both surfaces.
CopySurface ==
    /\ \E src \in {"buffer"}, dest \in {"bar"} :
          \E sp \in DOMAIN pixels["xcb"][src], dp \in DOMAIN pixels["xcb"][dest] :
              draw_util_copy_surface(src, dest, sp[1], sp[2], dp[1], dp[2],
                  Min(surface[src].width - sp[1], surface[dest].width - dp[1]),
                  Min(surface[src].height - sp[2], surface[dest].height - dp[2]))
    /\ UNCHANGED hexvars

Next ==
    \/ SurfaceInit
    \/ SurfaceFree
    \/ Text
    \/ Rectangle
    \/ ClearSurface
    \/ CopySurface

Spec == Init /\ [][Next]_vars

HexInit ==
    /\ color \in Inputs
    /\ hexpc = "call"
    /\ result = NoColor
    /\ reads = {}
    /\ SurfInit

\* The call returns: every read past the NUL yields some byte of memory.
HexToColor ==
    /\ hexpc = "call"
    /\ \E junk \in Junk :
          result' = draw_util_hex_to_color(color, junk)
    /\ reads' = ReadIndices(color)
    /\ hexpc' = "returned"
    /\ UNCHANGED <<color, surfvars>>

\* The call reads past the NUL into memory that is not mapped.
HexFault ==
    /\ hexpc = "call"
    /\ \E i \in ReadIndices(color) : i > strlen(color)
    /\ reads' = ReadIndices(color)
    /\ hexpc' = "crashed"
    /\ UNCHANGED <<color, result, surfvars>>

HexNext == HexToColor \/ HexFault

SpecHex == HexInit /\ [][HexNext]_vars

(***************************************************************************)
(* Claims about draw_util_hex_to_color, checked under SpecHex.             *)
(***************************************************************************)
PairValue(a, b) == 16 * HexValue[a] + HexValue[b]

\* "#" followed by exactly 6 or exactly 8 hexadecimal digits.
WellFormed(s) ==
    /\ Len(s) \in {7, 9}
    /\ s[1] = "#"
    /\ \A i \in 2 .. Len(s) : IsHexDigit(s[i])

\* C1: on a well-formed input red, green and blue are the values of the 1st,
\* 2nd and 3rd digit pairs over 255, alpha is the 4th pair when 8 digits are
\* given and 255/255 when 6 are; "#000000" gives 0, 0, 0 with alpha 1 and
\* "#ffffffff" gives 1 in all four channels.
C1_WellFormedChannels ==
    (hexpc = "returned" /\ WellFormed(color)) =>
        /\ result.red = PairValue(color[2], color[3])
        /\ result.green = PairValue(color[4], color[5])
        /\ result.blue = PairValue(color[6], color[7])
        /\ result.alpha = IF Len(color) = 9 THEN PairValue(color[8], color[9]) ELSE 255
        /\ color = <<"#", "0", "0", "0", "0", "0", "0">> =>
              <<result.red, result.green, result.blue, result.alpha>> = <<0, 0, 0, 255>>
        /\ color = <<"#", "f", "f", "f", "f", "f", "f", "f", "f">> =>
              <<result.red, result.green, result.blue, result.alpha>> = <<255, 255, 255, 255>>

\* A six-digit input with mixed-case digits has been parsed.
C1_Witness ==
    /\ hexpc = "returned"
    /\ color = <<"#", "3", "c", "A", "9", "F", "F">>
    /\ <<result.red, result.green, result.blue, result.alpha>> = <<60, 169, 255, 255>>

\* C3: for every input of length 7 or 9 that begins with "#", whatever its
\* other characters, each of the four channels returned lies in 0..255 over
\* 255, that is in [0, 1].
C3_ChannelsInRange ==
    (hexpc = "returned" /\ Len(color) \in {7, 9} /\ color[1] = "#") =>
        /\ result.red \in 0 .. 255
        /\ result.green \in 0 .. 255
        /\ result.blue \in 0 .. 255
        /\ result.alpha \in 0 .. 255

\* C10: for an input of any length every index read is at most the index of
\* the terminating NUL, and the call returns a color_t without terminating
\* the process.
C10_MemorySafe ==
    hexpc # "call" =>
        /\ hexpc = "returned"
        /\ \A i \in reads : i <= strlen(color)

(***************************************************************************)
(* Claims about the surfaces, checked under Spec.                          *)
(***************************************************************************)
\* The pixel a fill with colour col leaves in build b.
PaintedBy(b, col) ==
    IF b = "cairo"
    THEN FromChans(col.red, col.green, col.blue)
    ELSE depth24(col.colorpixel)

\* C2: from identical contents and on the same calls, the cairo build and
\* the xcb build leave every drawable with identical pixel contents.
C2_BackendsAgree == pixels["cairo"] = pixels["xcb"]

\* C4: draw_util_surface_init either succeeds, and the surface then records
\* the given drawable, width and height and the newly generated GC id, or
\* the process has exited with a failure status before any cairo surface or
\* context was created; no drawing call has run on a surface without a GC.
C4_InitOrExit ==
    /\ alive <=> (\A s \in Surfaces : lifecycle[s] # "failed")
    /\ ~alive => exit_status = EXIT_FAILURE
    /\ \A s \in Surfaces :
          /\ lifecycle[s] = "live" =>
                /\ surface[s].id = DrawableOf(s)
                /\ surface[s].width = MaxW
                /\ surface[s].height = MaxH
                /\ surface[s].gc > Cardinality(Surfaces)
                /\ \A t \in Surfaces \ {s} : surface[t].gc # surface[s].gc
                /\ res[s].gc = 1
          /\ lifecycle[s] = "failed" =>
                /\ res[s] = [gc |-> 0, surface |-> 0, cr |-> 0]
                /\ cr[s] = NoCr
    /\ last.op # "none" => lifecycle[last.s] \in {"live", "freed"}
    /\ last.op = "copy" => lifecycle[last.src] \in {"live", "freed"}

\* One surface was initialised and the init of the next one failed.
C4_Witness ==
    /\ ~alive
    /\ exit_status = EXIT_FAILURE
    /\ \E s, t \in Surfaces :
          /\ lifecycle[s] = "failed" /\ surface[s].gc # 0 /\ res[s].cr = 0
          /\ lifecycle[t] = "live" /\ res[t].cr = 1

\* C5: between init and free a surface holds exactly what init acquired (the
\* GC, the cairo surface with the references of the surface_t and of its
\* cairo_t, and the cairo_t), whatever was drawn; after free it holds
\* nothing, and nothing was released twice.
C5_Balanced ==
    \A s \in Surfaces :
        /\ res[s].gc >= 0 /\ res[s].surface >= 0 /\ res[s].cr >= 0
        /\ lifecycle[s] = "live" => res[s] = [gc |-> 1, surface |-> 2, cr |-> 1]
        /\ lifecycle[s] = "freed" => res[s] = [gc |-> 0, surface |-> 0, cr |-> 0]

\* A surface was freed after it had been the source of a copy.
C5_Witness ==
    /\ last.op = "copy"
    /\ lifecycle[last.src] = "freed"
    /\ res[last.src] = [gc |-> 0, surface |-> 0, cr |-> 0]

\* C6: after draw_util_clear_surface(s, c) every pixel of s is c, whatever
\* was done before it; a copy onto s followed by the clear leaves no pixel
\* of the copy.
C6_ClearCoversAll ==
    last.op = "clear" =>
        \A b \in Builds :
            /\ DOMAIN pixels[b][last.s] = Coords(surface[last.s].width, surface[last.s].height)
            /\ \A p \in DOMAIN pixels[b][last.s] :
                  pixels[b][last.s][p] = PaintedBy(b, last.color)

\* The bar was cleared right after the buffer was copied onto it.
C6_Witness ==
    /\ last.op = "clear"
    /\ last.after_copy
    /\ \A p \in DOMAIN pixels["xcb"]["bar"] :
          pixels["xcb"]["bar"][p] = PaintedBy("xcb", last.color)

\* C7: in the cairo build every drawing call leaves the cairo_t of every
\* surface as it found it: the save depth, the operator and the source of a
\* live surface are those cairo_create gave it, after any sequence of calls.
C7_ContextRestored ==
    \A s \in Surfaces :
        lifecycle[s] = "live" =>
            /\ Len(cr[s].saved) = 0
            /\ cr[s].op = cairo_create.op
            /\ cr[s].source = cairo_create.source

\* A copy and another drawing call have been made.
C7_Witness ==
    /\ last.op = "copy"
    /\ nops >= 2
    /\ cr[last.s] = cairo_create
    /\ cr[last.src] = cairo_create

\* C8: in the cairo build no surface has unflushed cairo drawing when
\* draw_util_text draws on it through XCB, nor when a call returns; and no
\* surface has X drawing cairo was not told of when cairo next draws on it.
C8_FlushedAndDirty ==
    /\ \A s \in Surfaces : ~pending[s] /\ ~stale[s]
    /\ last.op = "text" => ~last.pendingAtDraw
    /\ last.op \in {"rectangle", "clear", "copy"} => ~last.staleAtDraw

\* Text was drawn on a surface cairo had filled with another colour.
C8_Witness ==
    /\ last.op = "text"
    /\ \E p \in DOMAIN pixels["cairo"][last.s], col \in DrawColors :
          /\ pixels["cairo"][last.s][p] = PaintedBy("cairo", col)
          /\ col # last.color

\* C9: the pixels draw_util_rectangle and draw_util_clear_surface fill have
\* the colour passed to that call, whatever was drawn before; in the xcb
\* build the foreground and the background of the GC are that colour's pixel.
C9_OwnColour ==
    last.op \in {"rectangle", "clear"} =>
        /\ \A b \in Builds :
              \A p \in DOMAIN pixels[b][last.s] :
                  (last.op = "clear" \/ p \in Rect(last.x, last.y, last.w, last.h)) =>
                      pixels[b][last.s][p] = PaintedBy(b, last.color)
        /\ gcv["xcb"][last.s] =
              [fg |-> last.color.colorpixel, bg |-> last.color.colorpixel]

\* A rectangle was filled after a text had set another foreground.
C9_Witness ==
    /\ last.op = "rectangle"
    /\ gcv["cairo"][last.s].fg # DefaultGc.fg
    /\ gcv["cairo"][last.s].fg # last.color.colorpixel

==========================================================================
